---- MODULE Spec2Model ----
(***************************************************************************)
(* Boole's elective equations (booles-logic.ipynb): elective functions,   *)
(* the expression parser, normalized equations (moduli tables),           *)
(* conjunction of equations and elimination of a symbol.                   *)
(*                                                                         *)
(* Python values are modelled as follows.                                  *)
(*   str            a sequence of one-character strings                    *)
(*   Function       a tagged tuple, one tag per subclass                   *)
(*   dict           a sequence of <<key, value>> pairs in insertion order  *)
(*   list object    a cell of the heap `lists`, named by its index         *)
(*   a call         <<"ok", value>> when it returns,                       *)
(*                  <<"raise", exception>> when it raises                  *)
(***************************************************************************)
EXTENDS Integers, Sequences, FiniteSets, TLC

VARIABLES
    src,      \* parser session: the text handed to parse
    ntok,     \* parser session: number of pieces the text was typed in
    fn,       \* parser session: the Function the text was rendered from, or NoFn
    parsed,   \* parser session: what parse(src) did, or NotCalled
    lists,    \* heap of the list objects holding symbols
    eqs,      \* the Equation objects created so far, in creation order
    calls,    \* calls[i] is the call that returned eqs[i]
    exc       \* the call that raised (the session stops there), or NoExc

vars == <<src, ntok, fn, parsed, lists, eqs, calls, exc>>

---------------------------------------------------------------------------
(* Bounds of the model *)

MaxTokens == 5      \* pieces of text typed before parse is called
MaxNodes == 6       \* nodes of a Function that is rendered and parsed back
MaxEqs == 3         \* Equation objects created in one session
MaxSyllogismEqs == 4    \* Equation objects created in one syllogism session
MaxPremiseEqs == 3      \* Equation objects created in one premise session
MaxNormalizedEqs == 2   \* Equation objects created in one normalization session

---------------------------------------------------------------------------
(* Python helpers *)

Ok(v) == <<"ok", v>>
Raise(e) == <<"raise", e>>
IsOk(r) == r[1] = "ok"
IsRaise(r) == r[1] = "raise"
Val(r) == r[2]

\* None, where the code holds either None or an index (indices are >= 0)
None == -1

\* s[i:j] for 0 <= i and 0 <= j (Python clamps both to len(s))
Slice(s, i, j) ==
    LET hi == IF j > Len(s) THEN Len(s) ELSE j
    IN  IF i >= hi THEN <<>> ELSE SubSeq(s, i + 1, hi)

\* s[i:]
SliceFrom(s, i) == Slice(s, i, Len(s))

LowerLetters ==
    {"a","b","c","d","e","f","g","h","i","j","k","l","m",
     "n","o","p","q","r","s","t","u","v","w","x","y","z"}

Digits == <<"0", "1", "2", "3", "4", "5", "6", "7", "8", "9">>

\* int(c) of a one-character string holding a decimal digit (the regex [01]
\* lets only "0" and "1" through)
IntOfDigit(c) == (CHOOSE i \in 1..10 : Digits[i] = c) - 1

\* str(n) of a natural number
RECURSIVE StrOfNat(_)
StrOfNat(n) ==
    IF n < 10 THEN <<Digits[n + 1]>>
    ELSE StrOfNat(n \div 10) \o <<Digits[(n % 10) + 1]>>

\* str(n) of an int, as f"{self.value}" renders it
StrOfInt(n) == IF n < 0 THEN <<"-">> \o StrOfNat(-n) ELSE StrOfNat(n)

---------------------------------------------------------------------------
(* Elective functions *)

SymbolFunction(symbol) == <<"sym", symbol>>
ConstantFunction(value) == <<"const", value>>
NegationFunction(body) == <<"neg", body>>
MultiplicationFunction(left, right) == <<"mul", left, right>>

FunctionTags == {"sym", "const", "neg", "mul"}

\* v is a Function object; the constructors check no types, so that a body
\* or a factor can also be a str (a sequence of characters), as in the
\* notebook's NegationFunction("x")
IsFunction(v) == Len(v) > 0 /\ v[1] \in FunctionTags

RECURSIVE Repr(_)

\* f"{v}": the __repr__ of a Function, a str as it is
Format(v) == IF IsFunction(v) THEN Repr(v) ELSE v

\* Function.__repr__ of each subclass
Repr(f) ==
    CASE f[1] = "sym"   -> <<f[2]>>
      [] f[1] = "const" -> StrOfInt(f[2])
      [] f[1] = "neg"   -> <<"(", "1", "-">> \o Format(f[2]) \o <<")">>
      [] f[1] = "mul"   -> Format(f[2]) \o Format(f[3])

\* Function.__call__ of each subclass; values is a dict symbol -> int, and
\* values[symbol] raises KeyError for a symbol that is no key of it; calling
\* a body or a factor that is a str raises TypeError
RECURSIVE Call(_, _)
Call(f, values) ==
    IF ~IsFunction(f) THEN Raise("TypeError")
    ELSE
    CASE f[1] = "sym"   ->
            IF f[2] \in DOMAIN values THEN Ok(values[f[2]]) ELSE Raise("KeyError")
      [] f[1] = "const" -> Ok(f[2])
      [] f[1] = "neg"   ->
            LET b == Call(f[2], values)
            IN  IF IsRaise(b) THEN b ELSE Ok(1 - Val(b))
      [] f[1] = "mul"   ->
            LET l == Call(f[2], values)
            IN  IF IsRaise(l) THEN l
                ELSE LET r == Call(f[3], values)
                     IN  IF IsRaise(r) THEN r ELSE Ok(Val(l) * Val(r))

---------------------------------------------------------------------------
(* Parser *)

\* the loop of matching_parenthesis from index i on, count being its counter
RECURSIVE MatchFrom(_, _, _)
MatchFrom(s, i, count) ==
    IF i >= Len(s) THEN None
    ELSE LET c == s[i + 1]
         IN  IF c = "(" THEN MatchFrom(s, i + 1, count + 1)
             ELSE IF c = ")"
                  THEN IF count - 1 = 0 THEN i
                       ELSE MatchFrom(s, i + 1, count - 1)
                  ELSE MatchFrom(s, i + 1, count)

\* matching_parenthesis taking the last ")" of s for the matching one
matching_parenthesis_Last(s) ==
    IF \E i \in 1..Len(s) : s[i] = ")"
    THEN (CHOOSE i \in 1..Len(s) : s[i] = ")" /\ \A j \in (i + 1)..Len(s) : s[j] # ")") - 1
    ELSE None

matching_parenthesis(s) == MatchFrom(s, 0, 0)

RECURSIVE parse(_)

\* the tail of parse taking "no matching parenthesis" for the end of the text
ParseRest_NoneIsEnd(s, to, res) ==
    IF to # Len(s) - 1 /\ to # None
    THEN LET right == parse(SliceFrom(s, to + 1))
         IN  IF IsRaise(right) THEN right
             ELSE Ok(MultiplicationFunction(res, Val(right)))
    ELSE Ok(res)

\* the tail of parse with the two factors of the product exchanged
ParseRest_Swapped(s, to, res) ==
    IF to # Len(s) - 1
    THEN IF to = None THEN Raise("TypeError")
         ELSE LET right == parse(SliceFrom(s, to + 1))
              IN  IF IsRaise(right) THEN right
                  ELSE Ok(MultiplicationFunction(Val(right), res))
    ELSE Ok(res)

\* the tail of parse: `if to != len(s) - 1: ...; return res`
ParseRest(s, to, res) ==
    IF to # Len(s) - 1
    THEN IF to = None THEN Raise("TypeError")          \* None + 1
         ELSE LET right == parse(SliceFrom(s, to + 1))
              IN  IF IsRaise(right) THEN right
                  ELSE Ok(MultiplicationFunction(res, Val(right)))
    ELSE Ok(res)

parse(s) ==
    IF Len(s) = 1
    THEN IF s[1] \in LowerLetters THEN Ok(SymbolFunction(s[1]))
         ELSE IF s[1] \in {"0", "1"} THEN Ok(ConstantFunction(IntOfDigit(s[1])))
         ELSE Raise("ValueError")
    ELSE IF Len(s) = 0 THEN Raise("IndexError")         \* s[0] of ""
    ELSE IF s[1] = "("
    THEN LET to == matching_parenthesis(s)
         IN  IF Slice(s, 0, 3) # <<"(", "1", "-">> THEN Raise("AssertionError")
             ELSE LET inside == parse(IF to = None THEN SliceFrom(s, 3)
                                                   ELSE Slice(s, 3, to))
                  IN  IF IsRaise(inside) THEN inside
                      ELSE ParseRest(s, to, NegationFunction(Val(inside)))
    ELSE LET first == parse(Slice(s, 0, 1))
         IN  IF IsRaise(first) THEN first
             ELSE ParseRest(s, 0, Val(first))

---------------------------------------------------------------------------
(* dict, with its insertion order *)

DictHas(d, k) == \E i \in 1..Len(d) : d[i][1] = k

\* d[k] of a key that is present
DictGet(d, k) == d[CHOOSE i \in 1..Len(d) : d[i][1] = k][2]

\* d[k] = v of a dict ordered by last write: a present key moves to the end
DictSet_MoveToEnd(d, k, v) ==
    Append(SelectSeq(d, LAMBDA item : item[1] # k), <<k, v>>)

\* d[k] = v: a present key keeps its place, a new key goes last
DictSet(d, k, v) ==
    IF DictHas(d, k)
    THEN [i \in 1..Len(d) |-> IF d[i][1] = k THEN <<k, v>> ELSE d[i]]
    ELSE Append(d, <<k, v>>)

\* list.index(x): the first index (0-based) of x, None standing for ValueError
Index(l, x) ==
    IF \E i \in 1..Len(l) : l[i] = x
    THEN (CHOOSE i \in 1..Len(l) : l[i] = x /\ \A j \in 1..(i - 1) : l[j] # x) - 1
    ELSE None

\* the list left by l.pop(i), 0 <= i < len(l)
Pop(l, i) == SubSeq(l, 1, i) \o SubSeq(l, i + 2, Len(l))

\* itertools.product([0, 1], repeat=n), as the sequence of the tuples it yields
RECURSIVE Product(_)
Product(n) ==
    IF n = 0 THEN << <<>> >>
    ELSE LET shorter == Product(n - 1)
             both(p) == << p \o <<0>>, p \o <<1>> >>
             Flat[i \in 0..Len(shorter)] ==
                 IF i = 0 THEN <<>> ELSE Flat[i - 1] \o both(shorter[i])
         IN  Flat[Len(shorter)]

\* dict(zip(symbols, values)), read only through value_map[symbol]
ZipDict(symbols, values) ==
    LET n == IF Len(symbols) < Len(values) THEN Len(symbols) ELSE Len(values)
    IN  [sym \in {symbols[i] : i \in 1..n} |->
            values[CHOOSE i \in 1..n :
                      symbols[i] = sym /\ \A j \in (i + 1)..n : symbols[j] # sym]]

---------------------------------------------------------------------------
(* Equations *)

Equation(symbols, moduli) == [symbols |-> symbols, moduli |-> moduli]

\* one term, with the test on the value the wrong way round
Term_Inverted(symbols, values) ==
    LET n == IF Len(symbols) < Len(values) THEN Len(symbols) ELSE Len(values)
        T[i \in 0..n] ==
            IF i = 0 THEN <<>>
            ELSE T[i - 1] \o (IF values[i] = 0 THEN <<symbols[i]>>
                              ELSE <<"(", "1", "-", symbols[i], ")">>)
    IN  T[n]

\* one term of Equation.__repr__: zip(self.symbols, values)
Term(symbols, values) ==
    LET n == IF Len(symbols) < Len(values) THEN Len(symbols) ELSE Len(values)
        T[i \in 0..n] ==
            IF i = 0 THEN <<>>
            ELSE T[i - 1] \o (IF values[i] = 1 THEN <<symbols[i]>>
                              ELSE <<"(", "1", "-", symbols[i], ")">>)
    IN  T[n]

\* " + ".join(terms)
JoinPlus(terms) ==
    LET J[i \in 0..Len(terms)] ==
            IF i = 0 THEN <<>>
            ELSE IF i = 1 THEN terms[1]
            ELSE J[i - 1] \o <<" ", "+", " ">> \o terms[i]
    IN  J[Len(terms)]

\* Equation.__repr__
EquationRepr(eq) ==
    LET m == eq.moduli
        Terms[i \in 0..Len(m)] ==
            IF i = 0 THEN <<>>
            ELSE IF m[i][2] # 0 THEN Append(Terms[i - 1], Term(eq.symbols, m[i][1]))
            ELSE Terms[i - 1]
        terms == Terms[Len(m)]
    IN  IF Len(terms) = 0 THEN <<"0", " ", "=", " ", "0">>
        ELSE JoinPlus(terms) \o <<" ", "=", " ", "0">>

\* the modulus of one tuple, 1 only where lhs exceeds rhs
Modulus_PositiveOnly(l, r) == IF l - r > 0 THEN 1 ELSE 0

\* the modulus of one tuple: 0 when lhs - rhs == 0 there, else 1
Modulus(l, r) == IF l - r = 0 THEN 0 ELSE 1

\* the loop of create_normalized_equation over the tuples still to visit
RECURSIVE NormalizeLoop(_, _, _, _, _)
NormalizeLoop(lhs, rhs, symbols, todo, moduli) ==
    IF todo = <<>> THEN Ok(moduli)
    ELSE LET values == Head(todo)
             value_map == ZipDict(symbols, values)
             l == Call(lhs, value_map)
         IN  IF IsRaise(l) THEN l
             ELSE LET r == Call(rhs, value_map)
                  IN  IF IsRaise(r) THEN r
                      ELSE NormalizeLoop(lhs, rhs, symbols, Tail(todo),
                               DictSet(moduli, values, Modulus(Val(l), Val(r))))

create_normalized_equation(lhs, rhs, symbols) ==
    LET moduli == NormalizeLoop(lhs, rhs, symbols, Product(Len(symbols)), <<>>)
    IN  IF IsRaise(moduli) THEN moduli
        ELSE Ok(Equation(symbols, Val(moduli)))

\* `and` in the place of `or`
ConjunctionModulus_And(a, b, key) ==
    IF DictGet(a.moduli, key) # 1 THEN Ok(0)
    ELSE IF ~DictHas(b.moduli, key) THEN Raise("KeyError")
    ELSE IF DictGet(b.moduli, key) = 1 THEN Ok(1)
    ELSE Ok(0)

\* the two moduli added and not renormalized
ConjunctionModulus_Sum(a, b, key) ==
    IF ~DictHas(b.moduli, key) THEN Raise("KeyError")
    ELSE Ok(DictGet(a.moduli, key) + DictGet(b.moduli, key))

\* `a.moduli[key] == 1 or b.moduli[key] == 1`, for a key of a.moduli; the
\* right operand is evaluated only when the left one is false
ConjunctionModulus(a, b, key) ==
    IF DictGet(a.moduli, key) = 1 THEN Ok(1)
    ELSE IF ~DictHas(b.moduli, key) THEN Raise("KeyError")
    ELSE IF DictGet(b.moduli, key) = 1 THEN Ok(1)
    ELSE Ok(0)

\* the loop of equation_conjunction over the keys of a.moduli from the i-th on
RECURSIVE ConjunctionLoop(_, _, _, _)
ConjunctionLoop(a, b, i, moduli) ==
    IF i > Len(a.moduli) THEN Ok(moduli)
    ELSE LET key == a.moduli[i][1]
             m == ConjunctionModulus(a, b, key)
         IN  IF IsRaise(m) THEN m
             ELSE ConjunctionLoop(a, b, i + 1, DictSet(moduli, key, Val(m)))

\* equation_conjunction without its assertion on the symbols
equation_conjunction_NoAssert(a, b) ==
    LET moduli == ConjunctionLoop(a, b, 1, <<>>)
    IN  IF IsRaise(moduli) THEN moduli
        ELSE Ok(Equation(a.symbols, Val(moduli)))

equation_conjunction(a, b) ==
    IF a.symbols # b.symbols THEN Raise("AssertionError")
    ELSE LET moduli == ConjunctionLoop(a, b, 1, <<>>)
         IN  IF IsRaise(moduli) THEN moduli
             ELSE Ok(Equation(a.symbols, Val(moduli)))

\* the first loop of eliminate_symbol, from the i-th item of eq.moduli on
RECURSIVE CountLoop(_, _, _, _)
CountLoop(eq, symbol, i, eliminated_count) ==
    IF i > Len(eq.moduli) THEN Ok(eliminated_count)
    ELSE LET values == eq.moduli[i][1]
             modulus == eq.moduli[i][2]
             at == Index(eq.symbols, symbol)
         IN  IF at = None THEN Raise("ValueError")
             ELSE IF at >= Len(values) THEN Raise("IndexError")   \* pop index out of range
             ELSE LET values2 == Pop(values, at)
                      started == IF DictHas(eliminated_count, values2)
                                 THEN eliminated_count
                                 ELSE DictSet(eliminated_count, values2, 0)
                      counted == IF modulus = 1
                                 THEN DictSet(started, values2,
                                              DictGet(started, values2) + 1)
                                 ELSE started
                  IN  CountLoop(eq, symbol, i + 1, counted)

\* the second loop forbidding an assignment as soon as one completion is
ModuliOfCounts_AnyCompletion(eliminated_count) ==
    LET M[i \in 0..Len(eliminated_count)] ==
            IF i = 0 THEN <<>>
            ELSE DictSet(M[i - 1], eliminated_count[i][1],
                         IF eliminated_count[i][2] >= 1 THEN 1 ELSE 0)
    IN  M[Len(eliminated_count)]

\* the second loop storing the forbidden assignments only
ModuliOfCounts_Sparse(eliminated_count) ==
    LET M[i \in 0..Len(eliminated_count)] ==
            IF i = 0 THEN <<>>
            ELSE IF eliminated_count[i][2] = 2
                 THEN DictSet(M[i - 1], eliminated_count[i][1], 1)
                 ELSE M[i - 1]
    IN  M[Len(eliminated_count)]

\* the second loop with `count == 1`
ModuliOfCounts_ExactlyOne(eliminated_count) ==
    LET M[i \in 0..Len(eliminated_count)] ==
            IF i = 0 THEN <<>>
            ELSE DictSet(M[i - 1], eliminated_count[i][1],
                         IF eliminated_count[i][2] = 1 THEN 1 ELSE 0)
    IN  M[Len(eliminated_count)]

\* the second loop of eliminate_symbol
ModuliOfCounts(eliminated_count) ==
    LET M[i \in 0..Len(eliminated_count)] ==
            IF i = 0 THEN <<>>
            ELSE DictSet(M[i - 1], eliminated_count[i][1],
                         IF eliminated_count[i][2] = 2 THEN 1 ELSE 0)
    IN  M[Len(eliminated_count)]

\* eliminate_symbol returning eq itself for a symbol eq does not have
eliminate_symbol_NoOp(eq, symbol) ==
    IF Index(eq.symbols, symbol) = None THEN Ok(eq)
    ELSE LET eliminated_count == CountLoop(eq, symbol, 1, <<>>)
         IN  IF IsRaise(eliminated_count) THEN eliminated_count
             ELSE Ok(Equation(Pop(eq.symbols, Index(eq.symbols, symbol)),
                              ModuliOfCounts(Val(eliminated_count))))

\* eliminate_symbol popping the last symbol of the list (`symbols2.pop()`)
eliminate_symbol_PopsLast(eq, symbol) ==
    LET eliminated_count == CountLoop(eq, symbol, 1, <<>>)
    IN  IF IsRaise(eliminated_count) THEN eliminated_count
        ELSE LET moduli == ModuliOfCounts(Val(eliminated_count))
                 at == Index(eq.symbols, symbol)
             IN  IF at = None THEN Raise("ValueError")
                 ELSE Ok(Equation(Pop(eq.symbols, Len(eq.symbols) - 1), moduli))

eliminate_symbol(eq, symbol) ==
    LET eliminated_count == CountLoop(eq, symbol, 1, <<>>)
    IN  IF IsRaise(eliminated_count) THEN eliminated_count
        ELSE LET moduli == ModuliOfCounts(Val(eliminated_count))
                 at == Index(eq.symbols, symbol)
             IN  IF at = None THEN Raise("ValueError")
                 ELSE Ok(Equation(Pop(eq.symbols, at), moduli))

---------------------------------------------------------------------------
(* Parser session: a text is typed piece by piece, or rendered from a     *)
(* Function, and then handed to parse.                                     *)

NoFn == <<"none">>
NotCalled == <<"notcalled">>

\* no call of the session has raised
NoExc ==
    [op |-> "none", exception |-> "", a |-> 0, b |-> 0, symbol |-> "",
     lhs |-> <<>>, rhs |-> <<>>, symbols |-> <<>>]

\* the pieces a text is typed from: the characters of the notation, the
\* prefix of a negation, and a character outside the notation
Tokens ==
    { <<"x">>, <<"1">>, <<"(", "1", "-">>, <<")">>, <<"(">>, <<"A">> }

Atoms ==
    { SymbolFunction("x"), SymbolFunction("y"),
      ConstantFunction(0), ConstantFunction(1) }

\* the Functions of exactly n nodes over Atoms
RECURSIVE FunctionsOfSize(_)
FunctionsOfSize(n) ==
    IF n = 1 THEN Atoms
    ELSE { NegationFunction(b) : b \in FunctionsOfSize(n - 1) }
         \cup UNION { { MultiplicationFunction(l, r) :
                            l \in FunctionsOfSize(i),
                            r \in FunctionsOfSize(n - 1 - i) } : i \in 1..(n - 2) }

Functions == UNION { FunctionsOfSize(n) : n \in 1..MaxNodes }

Init ==
    /\ src = <<>>
    /\ ntok = 0
    /\ fn = NoFn
    /\ parsed = NotCalled
    /\ lists = <<>>
    /\ eqs = <<>>
    /\ calls = <<>>
    /\ exc = NoExc

TypeToken(t) ==
    /\ parsed = NotCalled
    /\ fn = NoFn
    /\ ntok < MaxTokens
    /\ src' = src \o t
    /\ ntok' = ntok + 1
    /\ UNCHANGED <<fn, parsed, lists, eqs, calls, exc>>

RenderFn(f) ==
    /\ parsed = NotCalled
    /\ fn = NoFn
    /\ ntok = 0
    /\ fn' = f
    /\ src' = Repr(f)
    /\ UNCHANGED <<ntok, parsed, lists, eqs, calls, exc>>

CallParse ==
    /\ parsed = NotCalled
    /\ parsed' = parse(src)
    /\ UNCHANGED <<src, ntok, fn, lists, eqs, calls, exc>>

TypeSomeToken == \E t \in Tokens : TypeToken(t)
RenderSomeFn == \E f \in Functions : RenderFn(f)

NextParser == TypeSomeToken \/ RenderSomeFn \/ CallParse

SpecParser == Init /\ [][NextParser]_vars

---------------------------------------------------------------------------
(* Equation session: premises are normalized from their source texts, and *)
(* the Equations made so far are conjoined and have symbols eliminated.   *)
(* An Equation object holds a reference to its list of symbols.           *)

\* the Equation object e with its list of symbols read from the heap L
Deref(L, e) == Equation(L[e.symbols], e.moduli)

\* the source texts (lhs, rhs) of the premises the session normalizes
Premises ==
    { << <<"x">>, <<"x", "y">> >>,                 \* x = xy    All Xs are Ys
      << <<"y">>, <<"x", "y">> >>,                 \* y = xy    All Ys are Xs
      << <<"y", "z">>, <<"0">> >>,                 \* yz = 0    No Zs are Ys
      << <<"y">>, <<"x", "y", "z">> >> }           \* y = xyz   All Ys are Xs and Zs

\* the lists of symbols the session normalizes over
VarLists ==
    { <<"x", "y", "z">>, <<"x", "y">>, <<"y", "x">> }

\* the symbols the session asks to eliminate
Symbols == {"x", "y", "z"}

NormCall(lhs, rhs) ==
    [op |-> "norm", a |-> 0, b |-> 0, symbol |-> "", lhs |-> lhs, rhs |-> rhs]
ConjCall(i, j) ==
    [op |-> "conj", a |-> i, b |-> j, symbol |-> "", lhs |-> <<>>, rhs |-> <<>>]
ElimCall(i, symbol) ==
    [op |-> "elim", a |-> i, b |-> 0, symbol |-> symbol, lhs |-> <<>>, rhs |-> <<>>]

\* the call that raised `exception`
Raised(call, exception, symbols) ==
    [op |-> call.op, exception |-> exception, a |-> call.a, b |-> call.b,
     symbol |-> call.symbol, lhs |-> call.lhs, rhs |-> call.rhs, symbols |-> symbols]

\* create_normalized_equation(parse(lhs), parse(rhs), [...]) with a new list of
\* symbols: the heap and the Equations after it, or the exception raised
NormalizeCall(L, E, lhs, rhs, symbols) ==
    LET l == parse(lhs)
    IN  IF IsRaise(l) THEN l
        ELSE LET r == parse(rhs)
             IN  IF IsRaise(r) THEN r
                 ELSE LET eq == create_normalized_equation(Val(l), Val(r), symbols)
                      IN  IF IsRaise(eq) THEN eq
                          ELSE Ok([lists |-> Append(L, Val(eq).symbols),
                                   eqs |-> Append(E, Equation(Len(L) + 1,
                                                              Val(eq).moduli))])

\* equation_conjunction(E[i], E[j]): the result holds the list object of E[i]
ConjunctionCall(L, E, i, j) ==
    LET eq == equation_conjunction(Deref(L, E[i]), Deref(L, E[j]))
    IN  IF IsRaise(eq) THEN eq
        ELSE Ok([lists |-> L,
                 eqs |-> Append(E, Equation(E[i].symbols, Val(eq).moduli))])

\* eliminate_symbol popping from eq.symbols itself (`symbols2 = eq.symbols`):
\* the result holds the list object of E[i], one symbol shorter
EliminateCall_InPlace(L, E, i, symbol) ==
    LET eq == eliminate_symbol(Deref(L, E[i]), symbol)
    IN  IF IsRaise(eq) THEN eq
        ELSE Ok([lists |-> [L EXCEPT ![E[i].symbols] = Val(eq).symbols],
                 eqs |-> Append(E, Equation(E[i].symbols, Val(eq).moduli))])

\* eliminate_symbol(E[i], symbol): the result holds a new list object
EliminateCall(L, E, i, symbol) ==
    LET eq == eliminate_symbol(Deref(L, E[i]), symbol)
    IN  IF IsRaise(eq) THEN eq
        ELSE Ok([lists |-> Append(L, Val(eq).symbols),
                 eqs |-> Append(E, Equation(Len(L) + 1, Val(eq).moduli))])

\* the session after a call: its result is stored, or the exception ends it
Finish(res, call, symbols, cap) ==
    /\ exc = NoExc
    /\ IF IsRaise(res)
       THEN /\ exc' = Raised(call, Val(res), symbols)
            /\ UNCHANGED <<lists, eqs, calls>>
       ELSE /\ Len(eqs) < cap
            /\ lists' = Val(res).lists
            /\ eqs' = Val(res).eqs
            /\ calls' = Append(calls, call)
            /\ UNCHANGED exc
    /\ UNCHANGED <<src, ntok, fn, parsed>>

Normalize(p, symbols, cap) ==
    LET res == NormalizeCall(lists, eqs, p[1], p[2], symbols)
    IN  Finish(res, NormCall(p[1], p[2]), symbols, cap)

Conjoin(i, j, cap) ==
    LET res == ConjunctionCall(lists, eqs, i, j)
    IN  Finish(res, ConjCall(i, j), <<>>, cap)

Eliminate(i, symbol, cap) ==
    LET res == EliminateCall(lists, eqs, i, symbol)
    IN  Finish(res, ElimCall(i, symbol), <<>>, cap)

NormalizeSome ==
    \E p \in Premises, symbols \in VarLists : Normalize(p, symbols, MaxEqs)
ConjoinSome ==
    \E i, j \in 1..Len(eqs) : Conjoin(i, j, MaxEqs)
EliminateSome ==
    \E i \in 1..Len(eqs), symbol \in Symbols : Eliminate(i, symbol, MaxEqs)

Next == NormalizeSome \/ ConjoinSome \/ EliminateSome

Spec == Init /\ [][Next]_vars

---------------------------------------------------------------------------
(* Syllogism session: the notebook's own script. Two premises over        *)
(* x, y, z are normalized and conjoined, and the middle term y is          *)
(* eliminated from an Equation.                                            *)

SyllogismPremises ==
    { << <<"y">>, <<"x", "y">> >>,                 \* All Ys are Xs
      << <<"z">>, <<"y", "z">> >>,                 \* All Zs are Ys
      << <<"y", "z">>, <<"0">> >> }                \* No Zs are Ys

NormalizePremise ==
    \E p \in SyllogismPremises : Normalize(p, <<"x", "y", "z">>, MaxSyllogismEqs)
ConjoinPremises ==
    \E i, j \in 1..Len(eqs) : i < j /\ Conjoin(i, j, MaxSyllogismEqs)
EliminateMiddle ==
    \E i \in 1..Len(eqs) : Eliminate(i, "y", MaxSyllogismEqs)

NextSyllogism == NormalizePremise \/ ConjoinPremises \/ EliminateMiddle

SpecSyllogism == Init /\ [][NextSyllogism]_vars

---------------------------------------------------------------------------
(* Premise session: premises over x, y, z are normalized and the          *)
(* Equations made so far are conjoined.                                    *)

NormalizeOverXYZ ==
    \E p \in Premises : Normalize(p, <<"x", "y", "z">>, MaxPremiseEqs)
ConjoinAny ==
    \E i, j \in 1..Len(eqs) : Conjoin(i, j, MaxPremiseEqs)

NextPremises == NormalizeOverXYZ \/ ConjoinAny

SpecPremises == Init /\ [][NextPremises]_vars

---------------------------------------------------------------------------
(* Elimination session: premises over x, y, z are normalized, the         *)
(* Equations made so far are conjoined and have symbols eliminated.       *)

EliminateAny ==
    \E i \in 1..Len(eqs), symbol \in Symbols : Eliminate(i, symbol, MaxPremiseEqs)

NextElimination == NormalizeOverXYZ \/ ConjoinAny \/ EliminateAny

SpecElimination == Init /\ [][NextElimination]_vars

---------------------------------------------------------------------------
(* Short syllogism session: the premises of the syllogisms are normalized *)
(* over x, y, z, the Equations made so far are conjoined in any order and *)
(* the middle term y is eliminated from them.                              *)

NormalizeSyllogismPremise ==
    \E p \in SyllogismPremises : Normalize(p, <<"x", "y", "z">>, MaxPremiseEqs)
EliminateMiddleTerm ==
    \E i \in 1..Len(eqs) : Eliminate(i, "y", MaxPremiseEqs)

NextShortSyllogism == NormalizeSyllogismPremise \/ ConjoinAny \/ EliminateMiddleTerm

SpecShortSyllogism == Init /\ [][NextShortSyllogism]_vars

---------------------------------------------------------------------------
(* Normalization session: the premises of the notebook, and the           *)
(* disjunction of its rural-bhutan cell set equal to 1, are normalized    *)
(* over the lists of symbols of the notebook.                              *)

NotebookPremises ==
    { << <<"x">>, <<"x", "y">> >>,                              \* x = xy
      << <<"y">>, <<"x", "y">> >>,                              \* y = xy
      << <<"y">>, <<"y", "x">> >>,                              \* y = yx
      << <<"z">>, <<"y", "z">> >>,                              \* z = yz
      << <<"y", "z">>, <<"0">> >>,                              \* yz = 0
      << <<"y">>, <<"v", "x">> >>,                              \* y = vx
      << <<"v", "(", "1", "-", "x", ")">>, <<"0">> >>,          \* v(1-x) = 0
      << <<"v", "z">>, <<"v", "(", "1", "-", "y", ")">> >>,     \* vz = v(1-y)
      << <<"(", "1", "-", "(", "1", "-", "x", ")", "(", "1", "-", "y", ")", ")">>,
         <<"1">> >> }                                           \* (1-(1-x)(1-y)) = 1

NotebookVarLists ==
    { <<"x", "y">>, <<"x", "y", "z">>, <<"x", "y", "z", "v">> }

NormalizeNotebookPremise ==
    \E p \in NotebookPremises, symbols \in NotebookVarLists :
        Normalize(p, symbols, MaxNormalizedEqs)

NextNormalization == NormalizeNotebookPremise

SpecNormalization == Init /\ [][NextNormalization]_vars

---------------------------------------------------------------------------
(* Vocabulary of the properties *)

\* every 0/1 assignment of n variables
Assignments(n) == [1..n -> {0, 1}]

\* 2^n
RECURSIVE Pow2(_)
Pow2(n) == IF n = 0 THEN 1 ELSE 2 * Pow2(n - 1)

DictKeySet(d) == {d[i][1] : i \in 1..Len(d)}

\* the moduli are a table over exactly the 0/1 assignments of the symbols
IsTotal(eq) ==
    /\ DictKeySet(eq.moduli) = Assignments(Len(eq.symbols))
    /\ Len(eq.moduli) = Pow2(Len(eq.symbols))
    /\ \A i \in 1..Len(eq.moduli) : eq.moduli[i][2] \in {0, 1}

IsDistinct(l) == \A i, j \in 1..Len(l) : l[i] = l[j] => i = j

Forbids(eq, v) == DictHas(eq.moduli, v) /\ DictGet(eq.moduli, v) = 1

\* the forbidden assignments of an Equation, as a set
ForbiddenSet(eq) == {v \in DictKeySet(eq.moduli) : DictGet(eq.moduli, v) = 1}

\* the assignment v with bit put in at position k (0-based)
Completion(v, k, bit) == SubSeq(v, 1, k) \o <<bit>> \o SubSeq(v, k + 1, Len(v))

\* the list l without the symbol s, the others in their order
Without(l, s) == SelectSeq(l, LAMBDA x : x # s)

\* the 0-based position of s in a list of distinct symbols holding it
PositionOf(l, s) == (CHOOSE i \in 1..Len(l) : l[i] = s) - 1

\* same list of variables and same table (as a mapping)
SameEquation(e1, e2) ==
    /\ e1.symbols = e2.symbols
    /\ DictKeySet(e1.moduli) = DictKeySet(e2.moduli)
    /\ Len(e1.moduli) = Len(e2.moduli)
    /\ \A v \in DictKeySet(e1.moduli) : DictGet(e1.moduli, v) = DictGet(e2.moduli, v)

\* the Equation object eqs[k] of the session, by value
Eq(k) == Deref(lists, eqs[k])

---------------------------------------------------------------------------
(* C1: eliminate_symbol(eq, s) of a total eq over distinct variables      *)
(* returns the variables of eq without s, in their order, and a table     *)
(* over the remaining variables in which an assignment is 1 exactly when  *)
(* both of its completions (s = 0, s = 1 at s's position) are forbidden   *)
(* in eq, and 0 otherwise.                                                 *)
C1_EliminateForbidsIffBothCompletions ==
    \A k \in 1..Len(calls) :
        calls[k].op = "elim" =>
            LET eq == Eq(calls[k].a)
                s == calls[k].symbol
                res == Eq(k)
            IN  (IsTotal(eq) /\ IsDistinct(eq.symbols)) =>
                    LET at == PositionOf(eq.symbols, s)
                    IN  /\ res.symbols = Without(eq.symbols, s)
                        /\ Len(res.symbols) = Len(eq.symbols) - 1
                        /\ IsTotal(res)
                        /\ \A v \in Assignments(Len(eq.symbols) - 1) :
                               DictGet(res.moduli, v) =
                                   IF /\ Forbids(eq, Completion(v, at, 0))
                                      /\ Forbids(eq, Completion(v, at, 1))
                                   THEN 1 ELSE 0

\* an elimination that forbids one assignment and, for another, drops a
\* case that only one value of the eliminated symbol ruled out
C1_Witness ==
    \E k \in 1..Len(calls) :
        /\ calls[k].op = "elim"
        /\ LET eq == Eq(calls[k].a)
               at == PositionOf(eq.symbols, calls[k].symbol)
               res == Eq(k)
           IN  /\ \E v \in DictKeySet(res.moduli) : DictGet(res.moduli, v) = 1
               /\ \E v \in DictKeySet(res.moduli) :
                      /\ DictGet(res.moduli, v) = 0
                      /\ Forbids(eq, Completion(v, at, 0)) # Forbids(eq, Completion(v, at, 1))

---------------------------------------------------------------------------
(* C2: equation_conjunction(a, b) of Equations with equal variable lists  *)
(* returns that variable list and a table that is 1 where a or b forbids  *)
(* the assignment and 0 elsewhere: the union of the forbidden sets.       *)
C2_ConjunctionIsUnion ==
    \A k \in 1..Len(calls) :
        calls[k].op = "conj" =>
            LET a == Eq(calls[k].a)
                b == Eq(calls[k].b)
                res == Eq(k)
            IN  /\ a.symbols = b.symbols
                /\ res.symbols = a.symbols
                /\ DictKeySet(res.moduli) = Assignments(Len(a.symbols))
                /\ Len(res.moduli) = Pow2(Len(a.symbols))
                /\ \A v \in Assignments(Len(a.symbols)) :
                       DictGet(res.moduli, v) =
                           IF Forbids(a, v) \/ Forbids(b, v) THEN 1 ELSE 0
                /\ ForbiddenSet(res) = ForbiddenSet(a) \cup ForbiddenSet(b)

\* a conjunction in which each input forbids something the other allows
C2_Witness ==
    \E k \in 1..Len(calls) :
        /\ calls[k].op = "conj"
        /\ ForbiddenSet(Eq(calls[k].a)) \ ForbiddenSet(Eq(calls[k].b)) # {}
        /\ ForbiddenSet(Eq(calls[k].b)) \ ForbiddenSet(Eq(calls[k].a)) # {}
        /\ ForbiddenSet(Eq(k)) = ForbiddenSet(Eq(calls[k].a)) \cup ForbiddenSet(Eq(calls[k].b))

---------------------------------------------------------------------------
(* C3: create_normalized_equation(lhs, rhs, variables), when every symbol *)
(* of lhs and rhs occurs in variables, returns a table holding, for each  *)
(* of the 2^n assignments, 0 exactly when lhs - rhs evaluates to 0 there   *)
(* (symbol lookup, constant, 1 - body, left * right) and 1 otherwise; and *)
(* x = xy over [x, y] forbids only (x=1, y=0) and renders "x(1-y) = 0".   *)

\* the symbols occurring in a Function
RECURSIVE SymbolsOf(_)
SymbolsOf(f) ==
    CASE f[1] = "sym"   -> {f[2]}
      [] f[1] = "const" -> {}
      [] f[1] = "neg"   -> SymbolsOf(f[2])
      [] f[1] = "mul"   -> SymbolsOf(f[2]) \cup SymbolsOf(f[3])

\* the integer value of a Function under the assignment v of the variables
RECURSIVE Evaluate(_, _, _)
Evaluate(f, variables, v) ==
    CASE f[1] = "sym"   -> v[PositionOf(variables, f[2]) + 1]
      [] f[1] = "const" -> f[2]
      [] f[1] = "neg"   -> 1 - Evaluate(f[2], variables, v)
      [] f[1] = "mul"   -> Evaluate(f[2], variables, v) * Evaluate(f[3], variables, v)

RangeOf(l) == {l[i] : i \in 1..Len(l)}

C3_NormalizedModuli ==
    /\ \A k \in 1..Len(calls) :
           calls[k].op = "norm" =>
               LET lhs == Val(parse(calls[k].lhs))
                   rhs == Val(parse(calls[k].rhs))
                   res == Eq(k)
                   n == Len(res.symbols)
               IN  /\ SymbolsOf(lhs) \cup SymbolsOf(rhs) \subseteq RangeOf(res.symbols)
                   /\ DictKeySet(res.moduli) = Assignments(n)
                   /\ Len(res.moduli) = Pow2(n)
                   /\ \A v \in Assignments(n) :
                          DictGet(res.moduli, v) =
                              IF Evaluate(lhs, res.symbols, v)
                                   - Evaluate(rhs, res.symbols, v) = 0
                              THEN 0 ELSE 1
                   /\ ( /\ calls[k].lhs = <<"x">>
                        /\ calls[k].rhs = <<"x", "y">>
                        /\ res.symbols = <<"x", "y">> )
                      => /\ ForbiddenSet(res) = { <<1, 0>> }
                         /\ EquationRepr(res) =
                                <<"x", "(", "1", "-", "y", ")", " ", "=", " ", "0">>
    /\ exc.op = "norm" =>
           ~(SymbolsOf(Val(parse(exc.lhs))) \cup SymbolsOf(Val(parse(exc.rhs)))
                 \subseteq RangeOf(exc.symbols))

\* x = xy has been normalized over [x, y], and so has a premise holding a
\* negation whose table forbids an assignment where lhs - rhs is negative,
\* forbids one where it is positive and allows one where it is 0
C3_Witness ==
    /\ \E k \in 1..Len(calls) :
           /\ calls[k].op = "norm"
           /\ calls[k].lhs = <<"x">>
           /\ calls[k].rhs = <<"x", "y">>
           /\ Eq(k).symbols = <<"x", "y">>
           /\ EquationRepr(Eq(k)) = <<"x", "(", "1", "-", "y", ")", " ", "=", " ", "0">>
    /\ \E k \in 1..Len(calls) :
           /\ calls[k].op = "norm"
           /\ "-" \in RangeOf(calls[k].rhs)
           /\ LET lhs == Val(parse(calls[k].lhs))
                  rhs == Val(parse(calls[k].rhs))
                  res == Eq(k)
                  Difference(v) == Evaluate(lhs, res.symbols, v)
                                       - Evaluate(rhs, res.symbols, v)
              IN  /\ \E v \in Assignments(Len(res.symbols)) :
                         Difference(v) < 0 /\ DictGet(res.moduli, v) = 1
                  /\ \E v \in Assignments(Len(res.symbols)) :
                         Difference(v) > 0 /\ DictGet(res.moduli, v) = 1
                  /\ \E v \in Assignments(Len(res.symbols)) :
                         Difference(v) = 0 /\ DictGet(res.moduli, v) = 0

---------------------------------------------------------------------------
(* C4: every Equation of a session (normalized over distinct symbols, or  *)
(* got from such by conjunctions and eliminations) has a table of exactly *)
(* 2^|variables| entries, one per 0/1 assignment, each entry 0 or 1.      *)
C4_Totality ==
    \A k \in 1..Len(eqs) : IsTotal(Eq(k))

\* a symbol has been eliminated from the result of a conjunction of a
\* normalized Equation
C4_Witness ==
    /\ \E k \in 1..Len(calls) :
           /\ calls[k].op = "elim"
           /\ calls[calls[k].a].op = "conj"
           /\ calls[calls[calls[k].a].a].op = "norm"
           /\ Len(Eq(k).moduli) = Pow2(Len(Eq(k).symbols))
    /\ \A k \in 1..Len(eqs) : IsTotal(Eq(k))

---------------------------------------------------------------------------
(* C5: over total Equations a, b, c with the same variable list,          *)
(* equation_conjunction is commutative, idempotent and associative, up to *)
(* equality of the variable list and of the table.                        *)

Conj(a, b) == Val(equation_conjunction(a, b))

C5_ConjunctionLaws ==
    /\ \A i \in 1..Len(eqs) :
           IsTotal(Eq(i)) =>
               /\ IsOk(equation_conjunction(Eq(i), Eq(i)))
               /\ SameEquation(Conj(Eq(i), Eq(i)), Eq(i))
    /\ \A i, j \in 1..Len(eqs) :
           (Eq(i).symbols = Eq(j).symbols /\ IsTotal(Eq(i)) /\ IsTotal(Eq(j))) =>
               /\ IsOk(equation_conjunction(Eq(i), Eq(j)))
               /\ SameEquation(Conj(Eq(i), Eq(j)), Conj(Eq(j), Eq(i)))
    /\ \A i, j, k \in 1..Len(eqs) :
           (Eq(i).symbols = Eq(j).symbols /\ Eq(j).symbols = Eq(k).symbols
               /\ IsTotal(Eq(i)) /\ IsTotal(Eq(j)) /\ IsTotal(Eq(k))) =>
               SameEquation(Conj(Conj(Eq(i), Eq(j)), Eq(k)),
                            Conj(Eq(i), Conj(Eq(j), Eq(k))))

\* three Equations over one variable list, none forbidding all that another
\* forbids
C5_Witness ==
    \E i, j, k \in 1..Len(eqs) :
        /\ Eq(i).symbols = Eq(j).symbols
        /\ Eq(j).symbols = Eq(k).symbols
        /\ ~(ForbiddenSet(Eq(i)) \subseteq ForbiddenSet(Eq(j)))
        /\ ~(ForbiddenSet(Eq(j)) \subseteq ForbiddenSet(Eq(k)))
        /\ ~(ForbiddenSet(Eq(k)) \subseteq ForbiddenSet(Eq(i)))
        /\ ~(ForbiddenSet(Eq(j)) \subseteq ForbiddenSet(Eq(i)))
        /\ SameEquation(Conj(Conj(Eq(i), Eq(j)), Eq(k)), Conj(Eq(i), Conj(Eq(j), Eq(k))))

---------------------------------------------------------------------------
(* The notation: a text is a non-empty sequence of terms, each a          *)
(* lowercase letter, 0, 1, or "(1-" expr ")".                             *)

RECURSIVE InGrammar(_)
InGrammar(s) ==
    /\ s # <<>>
    /\ \/ /\ s[1] \in LowerLetters \cup {"0", "1"}
          /\ (Len(s) = 1 \/ InGrammar(Tail(s)))
       \/ /\ Len(s) >= 5
          /\ SubSeq(s, 1, 3) = <<"(", "1", "-">>
          /\ \E j \in 5..Len(s) :
                 /\ s[j] = ")"
                 /\ InGrammar(SubSeq(s, 4, j - 1))
                 /\ (j = Len(s) \/ InGrammar(SubSeq(s, j + 1, Len(s))))

\* "(" minus ")" among the first i characters
RECURSIVE Depth(_, _)
Depth(s, i) ==
    IF i = 0 THEN 0
    ELSE Depth(s, i - 1) + (IF s[i] = "(" THEN 1 ELSE IF s[i] = ")" THEN -1 ELSE 0)

Unbalanced(s) == Depth(s, Len(s)) # 0 \/ \E i \in 1..Len(s) : Depth(s, i) < 0

\* some "(" is not followed by the literal "1-"
BadOpen(s) ==
    \E i \in 1..Len(s) : s[i] = "(" /\ Slice(s, i, i + 2) # <<"1", "-">>

BadChar(s) == Len(s) = 1 /\ s[1] \notin LowerLetters \cup {"0", "1"}

---------------------------------------------------------------------------
(* C6: for every text that is the rendering of a Function over letters,   *)
(* 0, 1, negation and product, parse succeeds and the parsed Function     *)
(* renders to exactly that text.                                           *)
C6_RoundTrip ==
    (parsed # NotCalled /\ (fn # NoFn \/ InGrammar(src))) =>
        /\ IsOk(parsed)
        /\ Repr(Val(parsed)) = src

\* the rendering of a product whose left factor is a product and which
\* holds a negation has been parsed, to a Function nested the other way
C6_Witness ==
    /\ fn # NoFn
    /\ fn[1] = "mul"
    /\ fn[2][1] = "mul"
    /\ fn[3][1] = "neg"
    /\ IsOk(parsed)
    /\ Val(parsed) # fn
    /\ Repr(Val(parsed)) = Repr(fn)

---------------------------------------------------------------------------
(* C7: Barbara. With p1 = y = xy and p2 = z = yz normalized over          *)
(* [x, y, z], eliminating y from the conjunction of p1 and p2 gives the   *)
(* Equation over [x, z] that forbids only (x=0, z=1), rendered            *)
(* "(1-x)z = 0".                                                           *)

IsBarbaraConclusion(k) ==
    /\ calls[k].op = "elim"
    /\ calls[k].symbol = "y"
    /\ LET c == calls[k].a
       IN  /\ calls[c].op = "conj"
           /\ LET p1 == calls[c].a
                  p2 == calls[c].b
              IN  /\ calls[p1].op = "norm"
                  /\ calls[p1].lhs = <<"y">>
                  /\ calls[p1].rhs = <<"x", "y">>
                  /\ Eq(p1).symbols = <<"x", "y", "z">>
                  /\ calls[p2].op = "norm"
                  /\ calls[p2].lhs = <<"z">>
                  /\ calls[p2].rhs = <<"y", "z">>
                  /\ Eq(p2).symbols = <<"x", "y", "z">>

C7_Barbara ==
    \A k \in 1..Len(calls) :
        IsBarbaraConclusion(k) =>
            /\ Eq(k).symbols = <<"x", "z">>
            /\ ForbiddenSet(Eq(k)) = { <<0, 1>> }
            /\ IsTotal(Eq(k))
            /\ EquationRepr(Eq(k)) =
                   <<"(", "1", "-", "x", ")", "z", " ", "=", " ", "0">>
            /\ EquationRepr(Eq(calls[k].a)) =
                   <<"(", "1", "-", "x", ")", "(", "1", "-", "y", ")", "z", " ", "+", " ",
                     "(", "1", "-", "x", ")", "y", "(", "1", "-", "z", ")", " ", "+", " ",
                     "(", "1", "-", "x", ")", "y", "z", " ", "+", " ",
                     "x", "(", "1", "-", "y", ")", "z", " ", "=", " ", "0">>

\* the middle term has been eliminated from the conjunction of the premises
C7_Witness ==
    \E k \in 1..Len(calls) :
        /\ IsBarbaraConclusion(k)
        /\ EquationRepr(Eq(k)) = <<"(", "1", "-", "x", ")", "z", " ", "=", " ", "0">>

---------------------------------------------------------------------------
(* C8: parse returns a Function only for a text of the notation, and the  *)
(* Function renders to the whole text; the empty text, a single character *)
(* that is no lowercase letter, 0 or 1, a "(" not followed by "1-" and    *)
(* unbalanced parentheses all make the call raise.                        *)
C8_ParseRejects ==
    parsed # NotCalled =>
        /\ IsOk(parsed) => (InGrammar(src) /\ Repr(Val(parsed)) = src)
        /\ src = <<>> => IsRaise(parsed)
        /\ BadChar(src) => IsRaise(parsed)
        /\ BadOpen(src) => IsRaise(parsed)
        /\ Unbalanced(src) => IsRaise(parsed)
        /\ ~InGrammar(src) => IsRaise(parsed)

\* a negation that is never closed has been handed to parse
C8_Witness ==
    /\ parsed # NotCalled
    /\ src = <<"(", "1", "-", "(", "1", "-", "x", ")", "x">>
    /\ Unbalanced(src)
    /\ ~BadOpen(src)
    /\ IsRaise(parsed)

---------------------------------------------------------------------------
(* C9: equation_conjunction(a, b) on Equations whose variable lists       *)
(* differ (other symbols, or the same symbols in another order) raises    *)
(* and no Equation is made.                                                *)
C9_MismatchRaises ==
    [][\A i, j \in 1..Len(eqs) :
          (Eq(i).symbols # Eq(j).symbols /\ Conjoin(i, j, MaxEqs)) =>
              /\ exc' = Raised(ConjCall(i, j), "AssertionError", <<>>)
              /\ eqs' = eqs
              /\ lists' = lists
              /\ calls' = calls]_vars

\* a conjunction of Equations over the same symbols in another order raised
C9_Witness ==
    /\ exc.op = "conj"
    /\ exc.exception = "AssertionError"
    /\ Eq(exc.a).symbols # Eq(exc.b).symbols
    /\ RangeOf(Eq(exc.a).symbols) = RangeOf(Eq(exc.b).symbols)

---------------------------------------------------------------------------
(* C10: eliminate_symbol(eq, s) with s not among the variables of eq (any *)
(* s when eq has no variables) raises, no Equation is made and eq is      *)
(* left as it was.                                                         *)
C10_UnknownSymbolRaises ==
    [][\A i \in 1..Len(eqs), s \in Symbols :
          (s \notin RangeOf(Eq(i).symbols) /\ Eliminate(i, s, MaxEqs)) =>
              /\ exc' = Raised(ElimCall(i, s), "ValueError", <<>>)
              /\ eqs' = eqs
              /\ lists' = lists
              /\ calls' = calls]_vars

\* a symbol was asked to be eliminated from an Equation with no variables
C10_Witness ==
    /\ exc.op = "elim"
    /\ exc.exception = "ValueError"
    /\ Eq(exc.a).symbols = <<>>
    /\ IsTotal(Eq(exc.a))

---------------------------------------------------------------------------
(* C11: in every Equation of a session (normalized, or got from such by   *)
(* conjunctions and eliminations) the table is iterated in ascending      *)
(* order of the assignment read as a binary number, the first variable    *)
(* being the most significant bit, and the Equation is rendered as the    *)
(* terms of its forbidden assignments in that order, joined by " + " and  *)
(* followed by " = 0", or as "0 = 0" when nothing is forbidden.           *)

\* the assignment read as a binary number, its first bit most significant
RECURSIVE BinaryValue(_)
BinaryValue(v) ==
    IF v = <<>> THEN 0
    ELSE 2 * BinaryValue(SubSeq(v, 1, Len(v) - 1)) + v[Len(v)]

\* the n-bit assignment whose binary value is m
BitsOf(n, m) == [i \in 1..n |-> (m \div Pow2(n - i)) % 2]

IsAscending(moduli) ==
    \A i, j \in 1..Len(moduli) :
        i < j => BinaryValue(moduli[i][1]) < BinaryValue(moduli[j][1])

\* the terms of the forbidden assignments of eq, by ascending binary value
AscendingTerms(eq) ==
    LET n == Len(eq.symbols)
        T[m \in 0..Pow2(n)] ==
            IF m = 0 THEN <<>>
            ELSE IF Forbids(eq, BitsOf(n, m - 1))
                 THEN Append(T[m - 1], Term(eq.symbols, BitsOf(n, m - 1)))
                 ELSE T[m - 1]
    IN  T[Pow2(n)]

AscendingText(eq) ==
    IF AscendingTerms(eq) = <<>> THEN <<"0", " ", "=", " ", "0">>
    ELSE JoinPlus(AscendingTerms(eq)) \o <<" ", "=", " ", "0">>

C11_EnumerationOrder ==
    \A k \in 1..Len(eqs) :
        /\ IsAscending(Eq(k).moduli)
        /\ \A i \in 1..Len(Eq(k).moduli) :
               /\ Len(Eq(k).moduli[i][1]) = Len(Eq(k).symbols)
               /\ BinaryValue(Eq(k).moduli[i][1]) = i - 1
        /\ EquationRepr(Eq(k)) = AscendingText(Eq(k))

\* the first of three symbols has been eliminated from an Equation that is
\* rendered with several terms, and the result forbids an assignment that
\* is not the first of its table
C11_Witness ==
    \E k \in 1..Len(calls) :
        /\ calls[k].op = "elim"
        /\ Len(Eq(calls[k].a).symbols) = 3
        /\ Eq(calls[k].a).symbols[1] = calls[k].symbol
        /\ Len(AscendingTerms(Eq(calls[k].a))) >= 2
        /\ \E i \in 2..Len(Eq(k).moduli) : Eq(k).moduli[i][2] = 1
        /\ IsAscending(Eq(k).moduli)
        /\ EquationRepr(Eq(k)) = AscendingText(Eq(k))

---------------------------------------------------------------------------
(* The top-level terms of a text of the notation, and the two ways of     *)
(* nesting their product.                                                  *)

\* where the first term of a text of the notation ends (1-based)
FirstTermEnd(s) ==
    IF s[1] = "("
    THEN CHOOSE j \in 1..Len(s) : Depth(s, j) = 0 /\ \A i \in 1..(j - 1) : Depth(s, i) # 0
    ELSE 1

RECURSIVE TopTerms(_)
TopTerms(s) ==
    IF s = <<>> THEN <<>>
    ELSE <<SubSeq(s, 1, FirstTermEnd(s))>>
             \o TopTerms(SubSeq(s, FirstTermEnd(s) + 1, Len(s)))

\* Product(Product(f1, f2), f3) ...
LeftNested(fs) ==
    LET F[i \in 1..Len(fs)] ==
            IF i = 1 THEN fs[1] ELSE MultiplicationFunction(F[i - 1], fs[i])
    IN  F[Len(fs)]

\* Product(f1, Product(f2, f3)) ...
RightNested(fs) ==
    LET F[i \in 1..Len(fs)] ==
            IF i = Len(fs) THEN fs[i] ELSE MultiplicationFunction(fs[i], F[i + 1])
    IN  F[1]

\* the Functions parse returns for the top-level terms of src, in order
ParsedTerms == [i \in 1..Len(TopTerms(src)) |-> Val(parse(TopTerms(src)[i]))]

(* C12, as claimed: for a text of three or more top-level terms           *)
(* t1 t2 t3 ..., parse returns Product(Product(t1, t2), t3), nested to    *)
(* the left.                                                               *)
C12_LeftAssociative ==
    (parsed # NotCalled /\ InGrammar(src) /\ IsOk(parsed) /\ Len(TopTerms(src)) >= 3) =>
        Val(parsed) = LeftNested(ParsedTerms)

(* C12, amended: juxtaposition parses to Product and nests to the right:  *)
(* for a text of three or more top-level terms t1 t2 t3 ..., parse        *)
(* returns Product(t1, Product(t2, t3)), not Product(Product(t1, t2), t3) *)
(* (and Product(t1, t2) for two terms).                                    *)
C12_RightAssociative ==
    (parsed # NotCalled /\ InGrammar(src)) =>
        /\ IsOk(parsed)
        /\ Len(TopTerms(src)) >= 2 =>
               /\ Val(parsed)[1] = "mul"
               /\ Val(parsed) = RightNested(ParsedTerms)
        /\ Len(TopTerms(src)) >= 3 =>
               /\ Val(parsed) # LeftNested(ParsedTerms)
               /\ Val(parsed)[2] = ParsedTerms[1]
               /\ Val(parsed)[3][1] = "mul"

\* a text of three terms, the middle one a negation, has been parsed
C12_Witness ==
    /\ parsed # NotCalled
    /\ src = <<"x", "(", "1", "-", "x", ")", "1">>
    /\ Len(TopTerms(src)) = 3
    /\ IsOk(parsed)
    /\ Val(parsed) =
           MultiplicationFunction(SymbolFunction("x"),
               MultiplicationFunction(NegationFunction(SymbolFunction("x")),
                                      ConstantFunction(1)))

---------------------------------------------------------------------------
(* C13: no call changes an Equation that exists: after every call of a    *)
(* session each Equation made before holds the same list object with the  *)
(* same symbols and the same table as before the call, also when it       *)
(* shares its list of symbols with another Equation; so after             *)
(* eliminate_symbol(eq, s) the list of eq still holds s at its place, and *)
(* after equation_conjunction(a, b) the lists of a and b are still equal. *)
C13_InputsNotMutated ==
    [][/\ Len(eqs') >= Len(eqs)
       /\ Len(lists') >= Len(lists)
       /\ \A k \in 1..Len(eqs) :
              /\ eqs'[k] = eqs[k]
              /\ lists'[eqs[k].symbols] = lists[eqs[k].symbols]
       /\ \A k \in 1..Len(calls') :
              /\ calls'[k].op = "elim" =>
                     LET eq == Deref(lists', eqs'[calls'[k].a])
                     IN  /\ calls'[k].symbol \in RangeOf(eq.symbols)
                         /\ Len(eq.symbols) = Len(Deref(lists', eqs'[k]).symbols) + 1
                         /\ Pop(eq.symbols, Index(eq.symbols, calls'[k].symbol))
                                = Deref(lists', eqs'[k]).symbols
              /\ calls'[k].op = "conj" =>
                     /\ Deref(lists', eqs'[calls'[k].a]).symbols
                            = Deref(lists', eqs'[calls'[k].b]).symbols
                     /\ Deref(lists', eqs'[k]).symbols
                            = Deref(lists', eqs'[calls'[k].a]).symbols]_vars

\* a symbol has been eliminated from an Equation that shares its list of
\* symbols with the result of a conjunction, and both still hold the symbol
C13_Witness ==
    \E k \in 1..Len(calls), j \in 1..Len(calls) :
        /\ calls[k].op = "elim"
        /\ j < k
        /\ j # calls[k].a
        /\ eqs[j].symbols = eqs[calls[k].a].symbols
        /\ eqs[k].symbols # eqs[j].symbols
        /\ (calls[j].op = "conj" \/ calls[calls[k].a].op = "conj")
        /\ calls[k].symbol \in RangeOf(Eq(j).symbols)
        /\ calls[k].symbol \in RangeOf(Eq(calls[k].a).symbols)
        /\ calls[k].symbol \notin RangeOf(Eq(k).symbols)
        /\ IsTotal(Eq(j))
        /\ IsTotal(Eq(calls[k].a))

---------------------------------------------------------------------------
(* C14: for every total Equation eq over distinct variables and every two *)
(* distinct symbols s, t of eq, eliminating s and then t, and eliminating *)
(* t and then s, both succeed and return the same list of variables and   *)
(* the same table.                                                         *)

EliminateTwo(eq, s, t) ==
    LET first == eliminate_symbol(eq, s)
    IN  IF IsRaise(first) THEN first ELSE eliminate_symbol(Val(first), t)

C14_EliminationCommutes ==
    \A k \in 1..Len(eqs) :
        (IsTotal(Eq(k)) /\ IsDistinct(Eq(k).symbols)) =>
            \A i, j \in 1..Len(Eq(k).symbols) :
                i < j =>
                    LET s == Eq(k).symbols[i]
                        t == Eq(k).symbols[j]
                        st == EliminateTwo(Eq(k), s, t)
                        ts == EliminateTwo(Eq(k), t, s)
                    IN  /\ IsOk(st)
                        /\ IsOk(ts)
                        /\ Val(st).symbols = Without(Without(Eq(k).symbols, s), t)
                        /\ Val(ts).symbols = Val(st).symbols
                        /\ SameEquation(Val(st), Val(ts))

\* an Equation over three symbols from which two can be eliminated, in
\* either order, to an Equation that forbids something, while the two
\* Equations in between forbid different assignments
C14_Witness ==
    \E k \in 1..Len(eqs) :
        /\ IsTotal(Eq(k))
        /\ Len(Eq(k).symbols) = 3
        /\ \E s, t \in RangeOf(Eq(k).symbols) :
               /\ s # t
               /\ ForbiddenSet(Val(eliminate_symbol(Eq(k), s)))
                      # ForbiddenSet(Val(eliminate_symbol(Eq(k), t)))
               /\ ForbiddenSet(Val(EliminateTwo(Eq(k), s, t))) # {}
               /\ ForbiddenSet(Val(EliminateTwo(Eq(k), s, t)))
                      # Assignments(1)
               /\ SameEquation(Val(EliminateTwo(Eq(k), s, t)),
                               Val(EliminateTwo(Eq(k), t, s)))

---------------------------------------------------------------------------
(* C15: for all total Equations a, b over the same list of distinct       *)
(* variables and every symbol s of it, every assignment forbidden by      *)
(* equation_conjunction(eliminate_symbol(a, s), eliminate_symbol(b, s))   *)
(* is forbidden by eliminate_symbol(equation_conjunction(a, b), s); and   *)
(* for the premises y = xy and z = yz over [x, y, z] with s = y the       *)
(* former forbids nothing while the latter forbids (x=0, z=1).            *)

EliminateThenConjoin(a, b, s) ==
    LET ea == eliminate_symbol(a, s)
        eb == eliminate_symbol(b, s)
    IN  IF IsRaise(ea) THEN ea
        ELSE IF IsRaise(eb) THEN eb
        ELSE equation_conjunction(Val(ea), Val(eb))

ConjoinThenEliminate(a, b, s) ==
    LET c == equation_conjunction(a, b)
    IN  IF IsRaise(c) THEN c ELSE eliminate_symbol(Val(c), s)

\* eqs[i] and eqs[j] are the premises All Ys are Xs and All Zs are Ys
AreBarbaraPremises(i, j) ==
    /\ calls[i].op = "norm"
    /\ calls[i].lhs = <<"y">>
    /\ calls[i].rhs = <<"x", "y">>
    /\ Eq(i).symbols = <<"x", "y", "z">>
    /\ calls[j].op = "norm"
    /\ calls[j].lhs = <<"z">>
    /\ calls[j].rhs = <<"y", "z">>
    /\ Eq(j).symbols = <<"x", "y", "z">>

C15_ConjoinBeforeEliminateIsStronger ==
    \A i, j \in 1..Len(eqs) :
        /\ ( /\ Eq(i).symbols = Eq(j).symbols
             /\ IsDistinct(Eq(i).symbols)
             /\ IsTotal(Eq(i))
             /\ IsTotal(Eq(j)) ) =>
               \A s \in RangeOf(Eq(i).symbols) :
                   LET former == EliminateThenConjoin(Eq(i), Eq(j), s)
                       latter == ConjoinThenEliminate(Eq(i), Eq(j), s)
                   IN  /\ IsOk(former)
                       /\ IsOk(latter)
                       /\ Val(former).symbols = Val(latter).symbols
                       /\ ForbiddenSet(Val(former)) \subseteq ForbiddenSet(Val(latter))
        /\ AreBarbaraPremises(i, j) =>
               /\ ForbiddenSet(Val(EliminateThenConjoin(Eq(i), Eq(j), "y"))) = {}
               /\ ForbiddenSet(Val(ConjoinThenEliminate(Eq(i), Eq(j), "y"))) = { <<0, 1>> }

\* the Barbara premises have been normalized and conjoined: eliminating the
\* middle term from the conjunction forbids what eliminating it from each
\* premise and conjoining does not; and for the conjunction and a premise
\* the two ways forbid the same assignment
C15_Witness ==
    /\ \E k \in 1..Len(calls) :
           /\ calls[k].op = "conj"
           /\ AreBarbaraPremises(calls[k].a, calls[k].b)
           /\ ForbiddenSet(Val(eliminate_symbol(Eq(k), "y"))) = { <<0, 1>> }
           /\ ForbiddenSet(Val(ConjoinThenEliminate(Eq(calls[k].a), Eq(calls[k].b), "y")))
                  = { <<0, 1>> }
           /\ ForbiddenSet(Val(EliminateThenConjoin(Eq(calls[k].a), Eq(calls[k].b), "y")))
                  = {}
    /\ \E i, j \in 1..Len(eqs) :
           /\ i # j
           /\ Eq(i).symbols = <<"x", "y", "z">>
           /\ Eq(j).symbols = <<"x", "y", "z">>
           /\ ForbiddenSet(Val(EliminateThenConjoin(Eq(i), Eq(j), "y"))) # {}
           /\ ForbiddenSet(Val(EliminateThenConjoin(Eq(i), Eq(j), "y")))
                  \subseteq ForbiddenSet(Val(ConjoinThenEliminate(Eq(i), Eq(j), "y")))

====
